---- MODULE Spec2Model ----
(***************************************************************************)
(* A model of TileCache's Cassandra cache backend                          *)
(* (TileCache/Caches/Cassandra.py): the key encoder (getRowKey,            *)
(* getColumnName, part1by1, interleave2, getKey), the tile store client    *)
(* (get, set, delete against a pycassa ColumnFamily) and the advisory      *)
(* render lock (attemptLock, unlock against a memcache client).            *)
(*                                                                         *)
(* Every handler makes at most one remote call.  A handler is modelled in  *)
(* two steps: the call (the code up to the remote call, which leaves the   *)
(* request in flight) and the reply (the service executes the request      *)
(* atomically and the rest of the handler runs).  Several workers run      *)
(* handlers concurrently; their steps interleave.                          *)
(***************************************************************************)
EXTENDS Integers, Sequences, FiniteSets, TLC

\* ------------------------------------------------------------------ bounds

\* The clock runs from 0 to MaxTime.
MaxTime == 2

\* The lock timeout (self.timeout, a configuration option), in clock ticks.
timeout == 1

\* The key encoder is applied to 0..MaxSmall, 65535-MaxSmall..65535 and some
\* powers of two.
MaxSmall == 2

\* ------------------------------------------------------------ Python values

\* A Python value a handler returns: None, a byte string, a bool or an int.
None == [t |-> "None", b |-> <<>>]
Bytes(d) == [t |-> "str", b |-> d]
True == [t |-> "bool", b |-> <<1>>]
False == [t |-> "bool", b |-> <<0>>]
Int0 == [t |-> "int", b |-> <<0>>]

\* Python's truth value of a returned value.
Truthy(v) == v.t # "None" /\ v.b # <<>> /\ v.b # <<0>>

\* How a call ended: it returned val, or it raised exc.
Return(v) == [kind |-> "return", val |-> v, exc |-> ""]
Raise(e) == [kind |-> "raise", val |-> None, exc |-> e]

\* --------------------------------------------------------- integers as bits

\* A Python int (unbounded, non-negative) is the set of the positions of its
\* one bits: 5 is {0, 2}.  Bits reads a number below 2^31.
Bits(n) == {i \in 0..30 : (n \div (2 ^ i)) % 2 = 1}

\* A 32-bit hexadecimal literal, given by its 8 digits, most significant first.
Hex(digits) == {i \in 0..31 : (digits[8 - (i \div 4)] \div (2 ^ (i % 4))) % 2 = 1}

BitAnd(a, b) == a \cap b
BitOr(a, b) == a \cup b
Shl(a, k) == {i + k : i \in a}

\* Byte k (0 is the least significant) of an int, as a number 0..255.
Bit(v, i) == IF i \in v THEN 1 ELSE 0
Byte(v, k) ==
    Bit(v, 8 * k) + 2 * Bit(v, 8 * k + 1) + 4 * Bit(v, 8 * k + 2)
    + 8 * Bit(v, 8 * k + 3) + 16 * Bit(v, 8 * k + 4) + 32 * Bit(v, 8 * k + 5)
    + 64 * Bit(v, 8 * k + 6) + 128 * Bit(v, 8 * k + 7)

\* -------------------------------------------------------------- key encoder

\* The masks of part1by1.
x0000ffff == Hex(<<0, 0, 0, 0, 15, 15, 15, 15>>)
x00FF00FF == Hex(<<0, 0, 15, 15, 0, 0, 15, 15>>)
x0F0F0F0F == Hex(<<0, 15, 0, 15, 0, 15, 0, 15>>)
x33333333 == Hex(<<3, 3, 3, 3, 3, 3, 3, 3>>)
x55555555 == Hex(<<5, 5, 5, 5, 5, 5, 5, 5>>)

\* A mutant of part1by1: the last step's mask is 0x33333333 again.
part1by1_mask(n) ==
    LET n0 == BitAnd(n, x0000ffff)
        n1 == BitAnd(BitOr(n0, Shl(n0, 8)), x00FF00FF)
        n2 == BitAnd(BitOr(n1, Shl(n1, 4)), x0F0F0F0F)
        n3 == BitAnd(BitOr(n2, Shl(n2, 2)), x33333333)
    IN  BitAnd(BitOr(n3, Shl(n3, 1)), x33333333)

\* A mutant of part1by1: the input is not masked to 16 bits first.
part1by1_nomask(n) ==
    LET n1 == BitAnd(BitOr(n, Shl(n, 8)), x00FF00FF)
        n2 == BitAnd(BitOr(n1, Shl(n1, 4)), x0F0F0F0F)
        n3 == BitAnd(BitOr(n2, Shl(n2, 2)), x33333333)
    IN  BitAnd(BitOr(n3, Shl(n3, 1)), x55555555)

\* part1by1: n &= 0x0000ffff, then four shift-or-mask steps.
part1by1(n) ==
    LET n0 == BitAnd(n, x0000ffff)
        n1 == BitAnd(BitOr(n0, Shl(n0, 8)), x00FF00FF)
        n2 == BitAnd(BitOr(n1, Shl(n1, 4)), x0F0F0F0F)
        n3 == BitAnd(BitOr(n2, Shl(n2, 2)), x33333333)
    IN  BitAnd(BitOr(n3, Shl(n3, 1)), x55555555)

\* A mutant of interleave2: y is not shifted.
interleave2_noshift(x, y) == BitOr(part1by1(x), part1by1(y))

\* interleave2: part1by1(x) | (part1by1(y) << 1)
interleave2(x, y) == BitOr(part1by1(x), Shl(part1by1(y), 1))

\* A mutant of pack_L: "<L", least significant byte first.
pack_L_little(v) == <<Byte(v, 0), Byte(v, 1), Byte(v, 2), Byte(v, 3)>>

\* struct.pack(">L", v): 4 bytes, most significant first (v below 2^32).
pack_L(v) == <<Byte(v, 3), Byte(v, 2), Byte(v, 1), Byte(v, 0)>>

\* struct.pack(">LL", a, b)
pack_LL(a, b) == pack_L(a) \o pack_L(b)

\* str(n) of a non-negative int: its decimal digits.
RECURSIVE str(_)
str(n) ==
    LET digit == <<"0", "1", "2", "3", "4", "5", "6", "7", "8", "9">>[(n % 10) + 1]
    IN  IF n < 10 THEN <<digit>> ELSE str(n \div 10) \o <<digit>>

\* sep.join(parts)
RECURSIVE join(_, _)
join(sep, parts) ==
    IF Len(parts) = 0 THEN <<>>
    ELSE IF Len(parts) = 1 THEN parts[1]
    ELSE parts[1] \o sep \o join(sep, Tail(parts))

\* A mutant of getKey: z is left out of the key.
getKey_noz(tile) == join(<<"/">>, <<tile.layer, str(tile.x), str(tile.y)>>)

\* getKey: "/".join(map(str, [tile.layer.name, tile.x, tile.y, tile.z]))
getKey(tile) == join(<<"/">>, <<tile.layer, str(tile.x), str(tile.y), str(tile.z)>>)

\* getLockName is inherited from the Cache base class: the lock token is the
\* layer/x/y/z string.
getLockName(tile) == getKey(tile)

\* getRowKey: the layer name.
getRowKey(tile) == tile.layer

\* A mutant of getColumnName: z is left out of the column name.
getColumnName_noz(tile) == pack_L(interleave2(Bits(tile.x), Bits(tile.y)))

\* getColumnName: struct.pack(">LL", tile.z, self.interleave2(tile.x, tile.y))
getColumnName(tile) == pack_LL(Bits(tile.z), interleave2(Bits(tile.x), Bits(tile.y)))

\* ------------------------------------------------------------------ inputs

\* The workers (render processes), each with its own cache client.
Callers == {"w1", "w2"}

\* Layer names, as strings of characters.
basic == <<"b", "a", "s", "i", "c">>
roads == <<"r", "o", "a", "d", "s">>
Layers == {basic, roads}

Tile(layer, x, y, z) == [layer |-> layer, x |-> x, y |-> y, z |-> z]
NoTile == Tile(<<>>, 0, 0, 0)

\* Two tiles of one layer in different columns, a third whose x is beyond
\* 16 bits, and a tile of another layer.
T1 == Tile(basic, 5, 2, 3)
T2 == Tile(basic, 2, 5, 1)
T3 == Tile(basic, 65541, 2, 3)
T4 == Tile(roads, 5, 2, 3)
\* A tile whose y is beyond 16 bits, and one that differs from T1 in z only.
T5 == Tile(basic, 5, 65538, 3)
T6 == Tile(basic, 5, 2, 1)

AllTiles == {T1, T2, T3, T4, T5, T6}

\* The keys of the model's tiles, computed by the key encoder (once).
RowKeyOf == [t \in AllTiles |-> getRowKey(t)]
ColumnNameOf == [t \in AllTiles |-> getColumnName(t)]
LockNameOf == [t \in AllTiles |-> getLockName(t)]

\* Tile data: byte strings (the empty one included).
Data == {<<>>, <<137, 80>>}

\* The numbers the key encoder is applied to.
KeyInputs ==
    (0..MaxSmall) \cup {65535 - i : i \in 0..MaxSmall} \cup {128, 256, 32768}

\* The coordinates column names are computed for: x and y, and z.
ColumnXY == (0..MaxSmall) \cup {5, 256, 65535}
ColumnZ == {1, 3, 16777216}

\* ------------------------------------------------------------------- state

VARIABLES
    store,        \* the "Tiles" column family: row key -> (column name -> value)
    cfHasDelete,  \* whether the ColumnFamily object answers to `delete`
    markers,      \* the memcache items: key -> absolute expiry time
    now,          \* the clock (time.time())
    readonly,     \* self.readonly of each worker's client
    pc,           \* where each worker is: "idle" or the remote call in flight
    req,          \* the request each worker has in flight
    result,       \* how each worker's last call ended
    call,         \* history: the last call of each worker, and how its remote
                  \* call went
    written,      \* history: per layer, the set that was the last completed write
    lastLock,     \* history: per tile, the last attemptLock that returned true
                  \* and what has happened to its marker since
    contest,      \* history: two attemptLock calls racing for one free tile
    regained,     \* history: how the lock was free when it was taken again
    arg,          \* key encoder: the inputs
    out           \* key encoder: the outputs

vars ==
    <<store, cfHasDelete, markers, now, readonly, pc, req, result, call,
      written, lastLock, contest, regained, arg, out>>

EmptyMap == [k \in {} |-> <<>>]

NoReq == [tile |-> NoTile, data |-> <<>>, time |-> 0]
NoResult == [kind |-> "", val |-> None, exc |-> "", calls |-> 0]

\* How a call ended, and the remote calls it made.
Result(r, calls) == [kind |-> r.kind, val |-> r.val, exc |-> r.exc, calls |-> calls]

NoCall ==
    [op |-> "", tile |-> NoTile, data |-> <<>>, held |-> FALSE, during |-> {},
     outcome |-> "none"]

NoWrite == [tile |-> NoTile, data |-> <<>>]
NoLock ==
    [by |-> "", created |-> 0, unlocked |-> "no", until |-> 0, taken |-> {},
     refused |-> FALSE]
NoContest == [tile |-> NoTile, waiting |-> {}, trues |-> 0, env |-> FALSE]

\* ---------------------------------------------------------------- services

\* A remote call either reaches its service and is answered ("ok") or fails in
\* transport ("fail": unreachable, timed out, connection reset).
Outcomes == {"ok", "fail"}

\* pycassa ColumnFamily.get(key, columns = [name]): the columns asked for, or
\* NotFoundException when the row or the column does not exist.
cf_get(st, key, name, o) ==
    IF o = "fail" THEN [exc |-> "AllServersUnavailable", cols |-> EmptyMap]
    ELSE IF key \notin DOMAIN st \/ name \notin DOMAIN st[key]
    THEN [exc |-> "NotFoundException", cols |-> EmptyMap]
    ELSE [exc |-> "", cols |-> [n \in {name} |-> st[key][n]]]

\* pycassa ColumnFamily.insert(key, columns): writes the columns into the row.
cf_insert(st, key, cols, o) ==
    IF o = "fail" THEN [exc |-> "AllServersUnavailable", store |-> st]
    ELSE [exc |-> "",
          store |-> [k \in DOMAIN st \cup {key} |->
                       IF k # key THEN st[k]
                       ELSE [n \in (IF key \in DOMAIN st THEN DOMAIN st[key] ELSE {})
                                   \cup DOMAIN cols |->
                               IF n \in DOMAIN cols THEN cols[n] ELSE st[key][n]]]]

\* pycassa ColumnFamily.remove(key): removes the whole row (the call the
\* administrative tool makes to invalidate a layer).
cf_remove(st, key, o) ==
    IF o = "fail" THEN [exc |-> "AllServersUnavailable", store |-> st]
    ELSE [exc |-> "", store |-> [k \in DOMAIN st \ {key} |-> st[k]]]

\* memcache.Client.add(key, val, time) with debug = 0: stores the item if the
\* key holds no live item and returns True, returns False if it holds one,
\* and returns 0 when the server cannot be reached.  An item is live until
\* the clock reaches its expiry; an expiry of 0 means that it never expires.
\* (items holds the live items only: the clock's step drops the expired.)
memcache_add(items, t, key, time, o) ==
    IF o = "fail" THEN [ret |-> Int0, items |-> items]
    ELSE IF key \in DOMAIN items THEN [ret |-> False, items |-> items]
    ELSE [ret |-> True,
          items |-> IF time = 0 \/ time > t
                    THEN [k \in DOMAIN items \cup {key} |->
                            IF k = key THEN time ELSE items[k]]
                    ELSE items]

\* memcache.Client.delete(key): removes the item if there is one; no error
\* if there is none or if the server cannot be reached.
memcache_delete(items, key, o) ==
    IF o = "fail" THEN items ELSE [k \in DOMAIN items \ {key} |-> items[k]]

\* ------------------------------------------------------- tile store client

\* get, up to the remote call: key and column name are computed, cf.get is sent.
get(c, tile) ==
    /\ pc[c] = "idle"
    /\ pc' = [pc EXCEPT ![c] = "cf.get"]
    /\ req' = [req EXCEPT ![c] = [tile |-> tile, data |-> <<>>, time |-> 0]]
    /\ result' = [result EXCEPT ![c] = NoResult]
    /\ UNCHANGED <<store, markers>>

\* A mutant of get_result: no except clause, NotFoundException propagates.
get_result_noexcept(reply, name) ==
    IF reply.exc # "" THEN Raise(reply.exc) ELSE Return(Bytes(reply.cols[name]))

\* A mutant of get_result: a bare except, every exception becomes None.
get_result_bareexcept(reply, name) ==
    IF reply.exc # "" THEN Return(None) ELSE Return(Bytes(reply.cols[name]))

\* get, from the reply on: result[name] is returned, NotFoundException becomes
\* None, any other exception propagates.
get_result(reply, name) ==
    IF reply.exc = "" THEN Return(Bytes(reply.cols[name]))
    ELSE IF reply.exc = "NotFoundException" THEN Return(None)
    ELSE Raise(reply.exc)

\* The store answers a get (or the call fails) and get finishes.
get_reply(c, o) ==
    /\ pc[c] = "cf.get"
    /\ LET key == RowKeyOf[req[c].tile]
           name == ColumnNameOf[req[c].tile]
           reply == cf_get(store, key, name, o)
       IN  result' = [result EXCEPT ![c] = Result(get_result(reply, name), 1)]
    /\ pc' = [pc EXCEPT ![c] = "idle"]
    /\ req' = [req EXCEPT ![c] = NoReq]
    /\ UNCHANGED <<store, markers>>

\* A mutant of set: the read-only test is inverted.
set_inverted(c, tile, data) ==
    /\ pc[c] = "idle"
    /\ IF ~readonly[c]
       THEN /\ result' = [result EXCEPT ![c] = Result(Return(Bytes(data)), 0)]
            /\ UNCHANGED <<pc, req>>
       ELSE /\ pc' = [pc EXCEPT ![c] = "cf.insert"]
            /\ req' = [req EXCEPT ![c] = [tile |-> tile, data |-> data, time |-> 0]]
            /\ result' = [result EXCEPT ![c] = NoResult]
    /\ UNCHANGED <<store, markers>>

\* A mutant of set: the read-only test is missing.
set_unguarded(c, tile, data) ==
    /\ pc[c] = "idle"
    /\ pc' = [pc EXCEPT ![c] = "cf.insert"]
    /\ req' = [req EXCEPT ![c] = [tile |-> tile, data |-> data, time |-> 0]]
    /\ result' = [result EXCEPT ![c] = NoResult]
    /\ UNCHANGED <<store, markers>>

\* A mutant of set: the write is skipped while the tile's lock marker exists.
set_unlesslocked(c, tile, data) ==
    /\ pc[c] = "idle"
    /\ IF readonly[c] \/ LockNameOf[tile] \in DOMAIN markers
       THEN /\ result' = [result EXCEPT ![c] = Result(Return(Bytes(data)), 0)]
            /\ UNCHANGED <<pc, req>>
       ELSE /\ pc' = [pc EXCEPT ![c] = "cf.insert"]
            /\ req' = [req EXCEPT ![c] = [tile |-> tile, data |-> data, time |-> 0]]
            /\ result' = [result EXCEPT ![c] = NoResult]
    /\ UNCHANGED <<store, markers>>

\* set, up to the remote call: a read-only client returns data at once;
\* otherwise key and column name are computed and cf.insert is sent.
set(c, tile, data) ==
    /\ pc[c] = "idle"
    /\ IF readonly[c]
       THEN /\ result' = [result EXCEPT ![c] = Result(Return(Bytes(data)), 0)]
            /\ UNCHANGED <<pc, req>>
       ELSE /\ pc' = [pc EXCEPT ![c] = "cf.insert"]
            /\ req' = [req EXCEPT ![c] = [tile |-> tile, data |-> data, time |-> 0]]
            /\ result' = [result EXCEPT ![c] = NoResult]
    /\ UNCHANGED <<store, markers>>

\* A mutant of set_reply: the data is appended to the column's value.
set_reply_append(c, o) ==
    /\ pc[c] = "cf.insert"
    /\ LET key == RowKeyOf[req[c].tile]
           name == ColumnNameOf[req[c].tile]
           old == IF key \in DOMAIN store /\ name \in DOMAIN store[key]
                  THEN store[key][name] ELSE <<>>
           reply == cf_insert(store, key, [n \in {name} |-> old \o req[c].data], o)
       IN  /\ store' = reply.store
           /\ result' = [result EXCEPT ![c] =
                  Result(IF reply.exc = "" THEN Return(Bytes(req[c].data))
                                ELSE Raise(reply.exc), 1)]
    /\ pc' = [pc EXCEPT ![c] = "idle"]
    /\ req' = [req EXCEPT ![c] = NoReq]
    /\ UNCHANGED markers

\* A mutant of set_reply: the column is written only if it does not exist.
set_reply_ifabsent(c, o) ==
    /\ pc[c] = "cf.insert"
    /\ LET key == RowKeyOf[req[c].tile]
           name == ColumnNameOf[req[c].tile]
           old == IF key \in DOMAIN store /\ name \in DOMAIN store[key]
                  THEN store[key][name] ELSE req[c].data
           reply == cf_insert(store, key, [n \in {name} |-> old], o)
       IN  /\ store' = reply.store
           /\ result' = [result EXCEPT ![c] =
                  Result(IF reply.exc = "" THEN Return(Bytes(req[c].data))
                                ELSE Raise(reply.exc), 1)]
    /\ pc' = [pc EXCEPT ![c] = "idle"]
    /\ req' = [req EXCEPT ![c] = NoReq]
    /\ UNCHANGED markers

\* The store executes the insert (or the call fails) and set returns data.
set_reply(c, o) ==
    /\ pc[c] = "cf.insert"
    /\ LET key == RowKeyOf[req[c].tile]
           name == ColumnNameOf[req[c].tile]
           reply == cf_insert(store, key, [n \in {name} |-> req[c].data], o)
       IN  /\ store' = reply.store
           /\ result' = [result EXCEPT ![c] =
                  Result(IF reply.exc = "" THEN Return(Bytes(req[c].data))
                                ELSE Raise(reply.exc), 1)]
    /\ pc' = [pc EXCEPT ![c] = "idle"]
    /\ req' = [req EXCEPT ![c] = NoReq]
    /\ UNCHANGED markers

\* delete, up to the remote call: key and column name are computed and
\* self.cf.delete(key) is evaluated.  pycassa names the row removal `remove`
\* (the administrative tool calls cf.remove); on a ColumnFamily without a
\* `delete` attribute the lookup raises AttributeError and nothing is sent.
delete(c, tile) ==
    /\ pc[c] = "idle"
    /\ IF cfHasDelete
       THEN /\ pc' = [pc EXCEPT ![c] = "cf.delete"]
            /\ req' = [req EXCEPT ![c] = [tile |-> tile, data |-> <<>>, time |-> 0]]
            /\ result' = [result EXCEPT ![c] = NoResult]
       ELSE /\ result' = [result EXCEPT ![c] =
                            Result(Raise("AttributeError"), 0)]
            /\ UNCHANGED <<pc, req>>
    /\ UNCHANGED <<store, markers>>

\* A mutant of delete_reply: the column family is truncated.
delete_reply_truncate(c, o) ==
    /\ pc[c] = "cf.delete"
    /\ LET reply == cf_remove(store, RowKeyOf[req[c].tile], o)
       IN  /\ store' = IF reply.exc = "" THEN EmptyMap ELSE store
           /\ result' = [result EXCEPT ![c] =
                  Result(IF reply.exc = "" THEN Return(None)
                                   ELSE Raise(reply.exc), 1)]
    /\ pc' = [pc EXCEPT ![c] = "idle"]
    /\ req' = [req EXCEPT ![c] = NoReq]
    /\ UNCHANGED markers

\* The store removes the row (or the call fails) and delete returns None.
delete_reply(c, o) ==
    /\ pc[c] = "cf.delete"
    /\ LET reply == cf_remove(store, RowKeyOf[req[c].tile], o)
       IN  /\ store' = reply.store
           /\ result' = [result EXCEPT ![c] =
                  Result(IF reply.exc = "" THEN Return(None)
                                   ELSE Raise(reply.exc), 1)]
    /\ pc' = [pc EXCEPT ![c] = "idle"]
    /\ req' = [req EXCEPT ![c] = NoReq]
    /\ UNCHANGED markers

\* ------------------------------------------------------------- render lock

\* A mutant of attemptLock: add is called without an expiry time.
attemptLock_noexpiry(c, tile) ==
    /\ pc[c] = "idle"
    /\ pc' = [pc EXCEPT ![c] = "memcache.add"]
    /\ req' = [req EXCEPT ![c] = [tile |-> tile, data |-> <<>>, time |-> 0]]
    /\ result' = [result EXCEPT ![c] = NoResult]
    /\ UNCHANGED <<store, markers>>

\* attemptLock, up to the remote call: the lock name and the expiry
\* time.time() + self.timeout are computed, memcache.add is sent.
attemptLock(c, tile) ==
    /\ pc[c] = "idle"
    /\ pc' = [pc EXCEPT ![c] = "memcache.add"]
    /\ req' = [req EXCEPT ![c] = [tile |-> tile, data |-> <<>>, time |-> now + timeout]]
    /\ result' = [result EXCEPT ![c] = NoResult]
    /\ UNCHANGED <<store, markers>>

\* A mutant of attemptLock_result: the result of add is ignored.
attemptLock_result_always(ret) == Return(True)

\* A mutant of attemptLock_result: a failed add raises.
attemptLock_result_raise(ret) ==
    IF ret = Int0 THEN Raise("socket.error") ELSE Return(ret)

\* attemptLock, from the reply on: what add returned is returned.
attemptLock_result(ret) == Return(ret)

\* A mutant of attemptLock_reply: the marker is written with memcache set,
\* which stores whether or not the key is held.
attemptLock_reply_set(c, o) ==
    /\ pc[c] = "memcache.add"
    /\ LET key == LockNameOf[req[c].tile]
       IN  /\ markers' = IF o = "fail" \/ req[c].time <= now THEN markers
                         ELSE [k \in DOMAIN markers \cup {key} |->
                                 IF k = key THEN req[c].time ELSE markers[k]]
           /\ result' = [result EXCEPT ![c] =
                  Result(Return(IF o = "fail" THEN Int0 ELSE True), 1)]
    /\ pc' = [pc EXCEPT ![c] = "idle"]
    /\ req' = [req EXCEPT ![c] = NoReq]
    /\ UNCHANGED store

\* memcache executes the add (or cannot be reached) and attemptLock returns.
attemptLock_reply(c, o) ==
    /\ pc[c] = "memcache.add"
    /\ LET r == memcache_add(markers, now, LockNameOf[req[c].tile], req[c].time, o)
       IN  /\ markers' = r.items
           /\ result' = [result EXCEPT ![c] =
                  Result(attemptLock_result(r.ret), 1)]
    /\ pc' = [pc EXCEPT ![c] = "idle"]
    /\ req' = [req EXCEPT ![c] = NoReq]
    /\ UNCHANGED store

\* unlock, up to the remote call: memcache.delete of the lock name is sent.
unlock(c, tile) ==
    /\ pc[c] = "idle"
    /\ pc' = [pc EXCEPT ![c] = "memcache.delete"]
    /\ req' = [req EXCEPT ![c] = [tile |-> tile, data |-> <<>>, time |-> 0]]
    /\ result' = [result EXCEPT ![c] = NoResult]
    /\ UNCHANGED <<store, markers>>

\* A mutant of unlock_reply: unlock raises when memcache held no marker.
unlock_reply_strict(c, o) ==
    /\ pc[c] = "memcache.delete"
    /\ markers' = memcache_delete(markers, LockNameOf[req[c].tile], o)
    /\ result' = [result EXCEPT ![c] =
           Result(IF o = "ok" /\ LockNameOf[req[c].tile] \notin DOMAIN markers
                  THEN Raise("KeyError") ELSE Return(None), 1)]
    /\ pc' = [pc EXCEPT ![c] = "idle"]
    /\ req' = [req EXCEPT ![c] = NoReq]
    /\ UNCHANGED store

\* memcache executes the delete (or cannot be reached) and unlock returns None.
unlock_reply(c, o) ==
    /\ pc[c] = "memcache.delete"
    /\ markers' = memcache_delete(markers, LockNameOf[req[c].tile], o)
    /\ result' = [result EXCEPT ![c] = Result(Return(None), 1)]
    /\ pc' = [pc EXCEPT ![c] = "idle"]
    /\ req' = [req EXCEPT ![c] = NoReq]
    /\ UNCHANGED store

\* -------------------------------------------------------------- environment

\* The clock advances; memcache drops the items whose expiry it has reached.
tick ==
    /\ now < MaxTime
    /\ now' = now + 1
    /\ markers' = [k \in {j \in DOMAIN markers : markers[j] = 0 \/ markers[j] > now + 1}
                     |-> markers[k]]
    /\ UNCHANGED <<store, pc, req, result>>

\* memcache loses an item (eviction, restart): "if memcache loses a lock".
lose(key) ==
    /\ key \in DOMAIN markers
    /\ markers' = [k \in DOMAIN markers \ {key} |-> markers[k]]
    /\ UNCHANGED <<store, pc, req, result>>

\* ------------------------------------------------- steps, with their history

\* The history variables record what the workers and the services were seen
\* to do (calls, returned values, remote outcomes); no handler reads them.

config == <<cfHasDelete, readonly>>
keyVars == <<arg, out>>
lockHistory == <<lastLock, contest, regained>>

\* Worker c calls handler op for tile t (with data d); held: the tile's lock
\* marker exists at that moment; during: for a set, the workers whose set for
\* the same tile is in flight at that moment.
Called(c, op, t, d) ==
    call' = [call EXCEPT ![c] =
               [op |-> op, tile |-> t, data |-> d,
                held |-> LockNameOf[t] \in DOMAIN markers,
                during |-> {c2 \in Callers \ {c} : /\ op = "set"
                                                    /\ pc[c2] = "cf.insert"
                                                    /\ call[c2].tile = t},
                outcome |-> "none"]]

\* The remote call of worker c went o.
Replied(c, o) == call' = [call EXCEPT ![c].outcome = o]

\* A call on the store by worker c for tile t has completed in this step.
\* A completed set of a client that is not read-only is the layer's last
\* write; any other completed set or delete on the layer ends that.
WrittenAfter(c, t, d, isSet) ==
    IF pc'[c] # "idle" \/ (isSet /\ readonly[c]) THEN written
    ELSE [written EXCEPT ![t.layer] =
            IF isSet /\ result'[c].kind = "return"
            THEN [tile |-> t, data |-> d] ELSE NoWrite]

Get(c, t) ==
    /\ get(c, t)
    /\ Called(c, "get", t, <<>>)
    /\ UNCHANGED <<now, config, written, lockHistory, keyVars>>

GetReply(c) ==
    /\ \E o \in Outcomes : get_reply(c, o) /\ Replied(c, o)
    /\ UNCHANGED <<now, config, written, lockHistory, keyVars>>

Set(c, t, d) ==
    /\ set(c, t, d)
    /\ Called(c, "set", t, d)
    /\ written' = WrittenAfter(c, t, d, TRUE)
    /\ UNCHANGED <<now, config, lockHistory, keyVars>>

SetReply(c) ==
    /\ \E o \in Outcomes : set_reply(c, o) /\ Replied(c, o)
    /\ written' = WrittenAfter(c, call[c].tile, call[c].data, TRUE)
    /\ UNCHANGED <<now, config, lockHistory, keyVars>>

Delete(c, t) ==
    /\ delete(c, t)
    /\ Called(c, "delete", t, <<>>)
    /\ written' = WrittenAfter(c, t, <<>>, FALSE)
    /\ UNCHANGED <<now, config, lockHistory, keyVars>>

DeleteReply(c) ==
    /\ \E o \in Outcomes : delete_reply(c, o) /\ Replied(c, o)
    /\ written' = WrittenAfter(c, call[c].tile, <<>>, FALSE)
    /\ UNCHANGED <<now, config, lockHistory, keyVars>>

\* Two attemptLock calls for tile t are in flight together and t has no marker.
Racing(c, t) ==
    /\ LockNameOf[t] \notin DOMAIN markers
    /\ \E c2 \in Callers \ {c} :
           pc[c2] = "memcache.add" /\ call[c2].op = "attemptLock" /\ call[c2].tile = t

AttemptLock(c, t) ==
    /\ attemptLock(c, t)
    /\ Called(c, "attemptLock", t, <<>>)
    /\ contest' =
         IF Racing(c, t)
         THEN [tile |-> t,
               waiting |-> {c} \cup {c2 \in Callers : /\ pc[c2] = "memcache.add"
                                                       /\ call[c2].tile = t},
               trues |-> 0, env |-> FALSE]
         ELSE IF contest.waiting = {} THEN NoContest ELSE contest
    /\ UNCHANGED <<now, config, written, lastLock, regained, keyVars>>

\* The lock of tile t is free again: its holder has called unlock, or the
\* time has passed the marker's creation time + the configured timeout.
Unlocked(t) == lastLock[t].by # "" /\ lastLock[t].unlocked # "no"
\* ... and the holder's unlock has reached the coordination service.
Released(t) == lastLock[t].by # "" /\ lastLock[t].unlocked = "deleted"
Expired(t) == lastLock[t].by # "" /\ now > lastLock[t].created + timeout
\* The lock of tile t is held: its holder has not called unlock since and
\* the clock has not reached the expiry time the marker was created with
\* (until; 0 once the holder has called unlock or that time is reached).
Held(t) == lastLock[t].by # "" /\ now < lastLock[t].until
\* The hold is over: what happened to the marker during it is forgotten.
HoldOver(l) == [l EXCEPT !.until = 0, !.taken = {}, !.refused = FALSE]

AttemptLockReply(c) ==
    /\ \E o \in Outcomes : attemptLock_reply(c, o) /\ Replied(c, o)
    /\ LET t == call[c].tile
           won == result'[c].kind = "return" /\ Truthy(result'[c].val)
       IN  /\ lastLock' = IF won
                          THEN [lastLock EXCEPT ![t] =
                                  [by |-> c, created |-> now, unlocked |-> "no",
                                   until |-> IF req[c].time > now
                                             THEN req[c].time ELSE 0,
                                   taken |-> {}, refused |-> FALSE]]
                          \* memcache has refused another worker the held lock
                          ELSE IF /\ Held(t) /\ lastLock[t].by # c
                                  /\ call'[c].outcome = "ok"
                          THEN [lastLock EXCEPT ![t].refused = TRUE]
                          ELSE lastLock
           /\ regained' = IF ~won THEN regained
                          ELSE regained
                               \cup (IF Released(t) THEN {"unlock"} ELSE {})
                               \cup (IF Expired(t) THEN {"expiry"} ELSE {})
           /\ contest' =
                IF c \notin contest.waiting THEN contest
                \* the marker this call created had expired on arrival
                ELSE IF won /\ LockNameOf[t] \notin DOMAIN markers' THEN NoContest
                ELSE [contest EXCEPT !.waiting = @ \ {c},
                                     !.trues = IF won THEN @ + 1 ELSE @,
                                     !.env = @ \/ call'[c].outcome = "fail"]
    /\ UNCHANGED <<now, config, written, keyVars>>

Unlock(c, t) ==
    /\ unlock(c, t)
    /\ Called(c, "unlock", t, <<>>)
    \* unlock has been called: the race for t is over
    /\ contest' = IF contest.tile = t /\ contest.waiting # {}
                  THEN NoContest ELSE contest
    \* the holder has called unlock
    /\ lastLock' = IF Held(t) /\ lastLock[t].by = c
                   THEN [lastLock EXCEPT ![t] = HoldOver(@)] ELSE lastLock
    /\ UNCHANGED <<now, config, written, regained, keyVars>>

UnlockReply(c) ==
    /\ \E o \in Outcomes : unlock_reply(c, o) /\ Replied(c, o)
    /\ LET t == call[c].tile
       IN  lastLock' = IF lastLock[t].by = c
                       THEN [lastLock EXCEPT ![t].unlocked =
                               IF call'[c].outcome = "ok" THEN "deleted" ELSE "called"]
                       \* another worker's unlock has deleted the holder's marker
                       ELSE IF /\ Held(t) /\ call'[c].outcome = "ok"
                               /\ LockNameOf[t] \in DOMAIN markers
                       THEN [lastLock EXCEPT ![t].taken = @ \cup {"unlock"}]
                       ELSE lastLock
    /\ UNCHANGED <<now, config, written, contest, regained, keyVars>>

Tick ==
    /\ tick
    \* the marker the race created has reached its expiry: the race is over
    /\ contest' = IF /\ contest.waiting # {}
                     /\ LockNameOf[contest.tile] \in DOMAIN markers
                     /\ LockNameOf[contest.tile] \notin DOMAIN markers'
                  THEN NoContest ELSE contest
    \* the clock has reached the expiry time of a held lock
    /\ lastLock' = [t \in AllTiles |->
                      IF Held(t) /\ now + 1 >= lastLock[t].until
                      THEN HoldOver(lastLock[t]) ELSE lastLock[t]]
    /\ UNCHANGED <<config, call, written, regained, keyVars>>

Lose(key) ==
    /\ lose(key)
    /\ contest' = IF contest.waiting # {} /\ LockNameOf[contest.tile] = key
                  THEN [contest EXCEPT !.env = TRUE] ELSE contest
    \* memcache has lost the holder's marker
    /\ lastLock' = [t \in AllTiles |->
                      IF Held(t) /\ LockNameOf[t] = key
                      THEN [lastLock[t] EXCEPT !.taken = @ \cup {"lost"}]
                      ELSE lastLock[t]]
    /\ UNCHANGED <<now, config, call, written, regained, keyVars>>

\* The key encoder is applied to two pairs of coordinates.
Interleave ==
    /\ out = <<>>
    /\ out' = <<interleave2(Bits(arg[1]), Bits(arg[2])),
                interleave2(Bits(arg[3]), Bits(arg[4]))>>
    /\ UNCHANGED <<store, markers, pc, req, result, now, config, call,
                   written, lockHistory, arg>>

\* ----------------------------------------------------------- specifications

InitClient ==
    /\ store = EmptyMap
    /\ markers = EmptyMap
    /\ now = 0
    /\ pc = [c \in Callers |-> "idle"]
    /\ req = [c \in Callers |-> NoReq]
    /\ result = [c \in Callers |-> NoResult]
    /\ call = [c \in Callers |-> NoCall]
    /\ written = [l \in Layers |-> NoWrite]
    /\ lastLock = [t \in AllTiles |-> NoLock]
    /\ contest = NoContest
    /\ regained = {}

Init ==
    /\ InitClient
    /\ cfHasDelete \in BOOLEAN
    \* the workers are alike: w1 stands for a client that writes
    /\ readonly \in {f \in [Callers -> BOOLEAN] : ~f["w1"]}
    /\ arg = <<>>
    /\ out = <<>>

\* The tiles the workers ask for in each specification.
StoreTiles == {T1, T2}
LockTiles == {T1}

\* The tile store: workers get, set and delete.
NextStore ==
    \E c \in Callers :
        \/ \E t \in StoreTiles : Get(c, t)
        \/ GetReply(c)
        \/ \E t \in StoreTiles : \E d \in Data : Set(c, t, d)
        \/ SetReply(c)
        \/ \E t \in StoreTiles : Delete(c, t)
        \/ DeleteReply(c)
SpecStore == Init /\ [][NextStore]_vars

\* The render lock: workers attemptLock and unlock; time passes, memcache
\* loses items.
NextLock ==
    \/ \E c \in Callers :
        \/ \E t \in LockTiles : AttemptLock(c, t)
        \/ AttemptLockReply(c)
        \/ \E t \in LockTiles : Unlock(c, t)
        \/ UnlockReply(c)
    \/ Tick
    \/ \E key \in DOMAIN markers : Lose(key)
SpecLock == Init /\ [][NextLock]_vars

\* The render locks of two tiles that differ in z only, each worker locking
\* and unlocking the tile it renders.
TokenTiles == {T1, T6}
TokenTileOf == [c \in Callers |-> IF c = "w1" THEN T1 ELSE T6]
NextTokens ==
    \/ \E c \in Callers :
        \/ AttemptLock(c, TokenTileOf[c])
        \/ AttemptLockReply(c)
        \/ Unlock(c, TokenTileOf[c])
        \/ UnlockReply(c)
    \/ Tick
    \/ \E key \in DOMAIN markers : Lose(key)
SpecTokens == Init /\ [][NextTokens]_vars

\* The whole client: every handler of every worker and the lock's
\* environment, the histories of the store and of the lock left unrecorded.
Bare == UNCHANGED <<now, config, written, lockHistory, keyVars>>

ClientStep(c) ==
    \/ \E t \in {T1} : get(c, t) /\ Called(c, "get", t, <<>>) /\ Bare
    \/ \E o \in Outcomes : get_reply(c, o) /\ Replied(c, o) /\ Bare
    \/ \E t \in {T1} : \E d \in Data : set(c, t, d) /\ Called(c, "set", t, d) /\ Bare
    \/ \E o \in Outcomes : set_reply(c, o) /\ Replied(c, o) /\ Bare
    \/ \E t \in {T1} : delete(c, t) /\ Called(c, "delete", t, <<>>) /\ Bare
    \/ \E o \in Outcomes : delete_reply(c, o) /\ Replied(c, o) /\ Bare
    \/ \E t \in {T1} : attemptLock(c, t) /\ Called(c, "attemptLock", t, <<>>) /\ Bare
    \/ \E o \in Outcomes : attemptLock_reply(c, o) /\ Replied(c, o) /\ Bare
    \/ \E t \in {T1} : unlock(c, t) /\ Called(c, "unlock", t, <<>>) /\ Bare
    \/ \E o \in Outcomes : unlock_reply(c, o) /\ Replied(c, o) /\ Bare

EnvStep ==
    /\ \/ tick
       \/ \E key \in DOMAIN markers : lose(key) /\ UNCHANGED now
    /\ UNCHANGED <<config, call, written, lockHistory, keyVars>>

Next ==
    \/ \E c \in Callers : ClientStep(c)
    \/ EnvStep
Spec == Init /\ [][Next]_vars

\* The key encoder on its own.
InitKey ==
    /\ InitClient
    /\ cfHasDelete = FALSE
    /\ readonly = [c \in Callers |-> FALSE]
    /\ arg \in KeyInputs \X KeyInputs \X KeyInputs \X KeyInputs
    /\ out = <<>>
NextKey == Interleave
SpecKey == InitKey /\ [][NextKey]_vars

\* Tiles that differ in x and y, in z only, and in the layer only: workers
\* set them and delete their layers; the data tells T1 from the others.
LayerTiles == {T1, T2, T6, T4}
LayerData == [t \in LayerTiles |-> IF t = T1 THEN <<>> ELSE <<137, 80>>]
NextLayers ==
    \E c \in Callers :
        \/ \E t \in LayerTiles : Set(c, t, LayerData[t])
        \/ SetReply(c)
        \/ \E t \in LayerTiles : Delete(c, t)
        \/ DeleteReply(c)
SpecLayers == Init /\ [][NextLayers]_vars

\* Tiles beyond the 16-bit grid: workers set and get T1, T3 and T5; the data
\* tells which tile a set was for.
AliasTiles == {T1, T3, T5}
AliasData == [t \in AliasTiles |-> IF t = T1 THEN <<>> ELSE <<137, 80>>]
NextAlias ==
    \E c \in Callers :
        \/ \E t \in AliasTiles : Get(c, t)
        \/ GetReply(c)
        \/ \E t \in AliasTiles : Set(c, t, AliasData[t])
        \/ SetReply(c)
SpecAlias == Init /\ [][NextAlias]_vars

\* The column names of two tiles of one zoom level: arg is <<x1, y1, x2, y2, z>>,
\* out the two column names, each with the interleave2 value of its tile.
ColumnName ==
    /\ out = <<>>
    /\ out' = <<[morton |-> interleave2(Bits(arg[1]), Bits(arg[2])),
                 name |-> getColumnName(Tile(basic, arg[1], arg[2], arg[5]))],
                [morton |-> interleave2(Bits(arg[3]), Bits(arg[4])),
                 name |-> getColumnName(Tile(basic, arg[3], arg[4], arg[5]))]>>
    /\ UNCHANGED <<store, markers, pc, req, result, now, config, call,
                   written, lockHistory, arg>>

InitColumn ==
    /\ InitClient
    /\ cfHasDelete = FALSE
    /\ readonly = [c \in Callers |-> FALSE]
    /\ arg \in ColumnXY \X ColumnXY \X ColumnXY \X ColumnXY \X ColumnZ
    /\ out = <<>>
NextColumn == ColumnName
SpecColumn == InitColumn /\ [][NextColumn]_vars

\* -------------------------------------------------------------------- claims

StoreOps == {"get", "set", "delete"}
LockOps == {"attemptLock", "unlock"}

\* In this step the remote call p of worker c is answered and its call ends.
Answered(c, p) == pc[c] = p /\ pc'[c] = "idle"

\* In this step worker c makes a call that ends without a remote call.
EndsAtOnce(c) == pc[c] = "idle" /\ pc'[c] = "idle" /\ <<call[c], result[c]>> # <<call'[c], result'[c]>>

\* What a get for tile t returns when the store, in state st, answers it.
StoredAt(st, t) ==
    IF RowKeyOf[t] \in DOMAIN st /\ ColumnNameOf[t] \in DOMAIN st[RowKeyOf[t]]
    THEN Bytes(st[RowKeyOf[t]][ColumnNameOf[t]]) ELSE None

\* C1: when the client is not read-only, a get that follows a completed
\* set(coord, data), with no other set or delete on the layer in between,
\* and that returns, returns exactly the data of that set.
C1_SetGetRoundTrip ==
    [][\A c \in Callers :
         (/\ Answered(c, "cf.get")
          /\ result'[c].kind = "return"
          /\ written[call[c].tile.layer].tile = call[c].tile)
         => result'[c].val = Bytes(written[call[c].tile.layer].data)]_vars

\* A get for T1 has returned the bytes that the last set on the layer wrote
\* for T1, and they are in the store.
C1_Witness ==
    \E c \in Callers :
        /\ call[c].op = "get" /\ call[c].tile = T1 /\ call[c].outcome = "ok"
        /\ written[T1.layer] = [tile |-> T1, data |-> <<137, 80>>]
        /\ result[c].kind = "return" /\ result[c].val = Bytes(<<137, 80>>)
        /\ StoredAt(store, T1) = Bytes(<<137, 80>>)

\* C5: a set of a read-only client returns at once, makes no remote call,
\* returns the data it was given and leaves the store as it was; a
\* read-only client never sends an insert.
C5_ReadOnlySet ==
    [][\A c \in Callers :
         readonly[c] =>
           /\ pc'[c] # "cf.insert"
           /\ (call'[c].op = "set" /\ EndsAtOnce(c))
              => /\ result'[c] = Result(Return(Bytes(call'[c].data)), 0)
                 /\ store' = store]_vars

\* A read-only client has set T2 while the store holds other bytes for T2.
C5_Witness ==
    \E c \in Callers :
        /\ readonly[c]
        /\ call[c].op = "set" /\ call[c].tile = T2 /\ call[c].data = <<137, 80>>
        /\ result[c] = Result(Return(Bytes(<<137, 80>>)), 0)
        /\ StoredAt(store, T2) = Bytes(<<>>)

\* C6: a get that the store answers, for a coordinate whose row or column
\* does not exist, returns None normally and leaves the store as it was.
C6_GetAbsent ==
    [][\A c \in Callers :
         (/\ Answered(c, "cf.get")
          /\ call'[c].outcome = "ok"
          /\ \/ RowKeyOf[call[c].tile] \notin DOMAIN store
             \/ ColumnNameOf[call[c].tile] \notin DOMAIN store[RowKeyOf[call[c].tile]])
         => /\ result'[c] = Result(Return(None), 1)
            /\ store' = store]_vars

\* A get for T2 has returned None while the row of its layer exists and
\* holds T1 only.
C6_Witness ==
    \E c \in Callers :
        /\ call[c].op = "get" /\ call[c].tile = T2 /\ call[c].outcome = "ok"
        /\ result[c] = Result(Return(None), 1)
        /\ DOMAIN store = {RowKeyOf[T2]}
        /\ DOMAIN store[RowKeyOf[T2]] = {ColumnNameOf[T1]}

\* C8: a store operation whose remote call fails in transport ends with the
\* store's error, never with a returned value (so never with None, the
\* answer for an absent tile); no store operation makes more than one
\* remote call, and an answered one has made exactly one.
C8_StoreFailurePropagates ==
    \A c \in Callers :
        (call[c].op \in StoreOps /\ pc[c] = "idle") =>
            /\ call[c].outcome = "fail"
               => result[c] = Result(Raise("AllServersUnavailable"), 1)
            /\ result[c].calls = (IF call[c].outcome = "none" THEN 0 ELSE 1)

\* A get has failed in transport and ended with the store's error.
C8_Witness ==
    \E c \in Callers :
        /\ call[c].op = "get" /\ call[c].outcome = "fail" /\ pc[c] = "idle"
        /\ result[c].kind = "raise" /\ result[c].exc = "AllServersUnavailable"

\* C10: on inputs of at most 16 bits interleave2 is injective (equal
\* results come from equal pairs) and its result fits in 32 bits.
C10_Interleave2Injective ==
    (out # <<>> /\ \A i \in 1..4 : arg[i] < 65536) =>
        /\ out[1] = out[2] => (arg[1] = arg[3] /\ arg[2] = arg[4])
        /\ out[1] \subseteq 0..31
        /\ out[2] \subseteq 0..31

\* interleave2(65535, 65535) has been computed, twice: all 32 bits are set.
C10_Witness ==
    /\ out # <<>>
    /\ arg = <<65535, 65535, 65535, 65535>>
    /\ out[1] = 0..31
    /\ out[1] = out[2]

\* C2: a delete that has ended, and did not fail in transport, has removed
\* the whole row of its layer: a get for any coordinate of the layer then
\* returns None.
C2_DeleteRemovesLayer ==
    [][\A c \in Callers :
         (/\ call'[c].op = "delete"
          /\ Answered(c, "cf.delete") \/ EndsAtOnce(c)
          /\ call'[c].outcome # "fail")
         => \A t \in AllTiles :
                t.layer = call'[c].tile.layer => StoredAt(store', t) = None]_vars

\* C3 as stated: of two attemptLock calls made together for a coordinate
\* with no marker, neither unlock nor the marker's expiry intervening,
\* exactly one returns true.
C3_ExactlyOneWins ==
    (contest.tile # NoTile /\ contest.waiting = {}) => contest.trues = 1

\* C3: of two attemptLock calls made together for a coordinate with no
\* marker, neither unlock nor the marker's expiry intervening, exactly one
\* returns true, provided that both calls reach the coordination service
\* and that the service does not lose the marker between them.
C3_ExactlyOneWinsWhenServed ==
    (contest.tile # NoTile /\ contest.waiting = {} /\ ~contest.env)
        => contest.trues = 1

\* Two attemptLock calls for T1 raced, both were served: one has returned
\* True and the other False.
C3_Witness ==
    /\ contest.tile = T1 /\ contest.waiting = {} /\ ~contest.env
    /\ contest.trues = 1
    /\ \E a, b \in Callers :
           /\ call[a].op = "attemptLock" /\ call[a].outcome = "ok"
           /\ call[b].op = "attemptLock" /\ call[b].outcome = "ok"
           /\ result[a] = Result(Return(True), 1)
           /\ result[b] = Result(Return(False), 1)

\* C4 as stated: once the holder has called unlock, or once the time has
\* passed the marker's creation time + timeout, an attemptLock for the
\* coordinate that is answered next returns true.
C4_FreeAfterUnlockOrExpiry ==
    [][\A c \in Callers :
         (/\ call[c].op = "attemptLock"
          /\ Answered(c, "memcache.add")
          /\ Unlocked(call[c].tile) \/ Expired(call[c].tile))
         => result'[c].kind = "return" /\ Truthy(result'[c].val)]_vars

\* C4: once the holder's unlock has reached the coordination service, or
\* once the time has passed the marker's creation time + timeout, an
\* attemptLock for the coordinate that the service answers next returns True.
C4_FreeAfterServedUnlockOrExpiry ==
    [][\A c \in Callers :
         (/\ call[c].op = "attemptLock"
          /\ Answered(c, "memcache.add")
          /\ call'[c].outcome = "ok"
          /\ Released(call[c].tile) \/ Expired(call[c].tile))
         => result'[c] = Result(Return(True), 1)]_vars

\* The lock has been taken again both after its holder's unlock and after
\* its marker's expiry.
C4_Witness == regained = {"unlock", "expiry"}

StoreStep(c) ==
    /\ call'[c].op \in StoreOps
    /\ <<pc[c], call[c], result[c]>> # <<pc'[c], call'[c], result'[c]>>
LockStep(c) ==
    /\ call'[c].op \in LockOps
    /\ <<pc[c], call[c], result[c]>> # <<pc'[c], call'[c], result'[c]>>

\* C9: the lock is advisory. No step of a store operation reads or changes
\* the lock markers: whether the store is asked depends on the operation and
\* the configuration only, an answered get returns what the store holds and
\* a returned set of a writing client has stored its data, whether or not
\* the coordinate is locked. No step of a lock operation, and no expiry or
\* loss of a marker, changes the store.
C9_LockAdvisory ==
    [][/\ \A c \in Callers :
            /\ StoreStep(c) => markers' = markers
            /\ LockStep(c) => store' = store
            /\ (StoreStep(c) /\ pc[c] = "idle")
                   => (pc'[c] = "idle" <=>
                          \/ call'[c].op = "set" /\ readonly[c]
                          \/ call'[c].op = "delete" /\ ~cfHasDelete)
            /\ (Answered(c, "cf.get") /\ call'[c].outcome = "ok")
                   => result'[c] = Result(Return(StoredAt(store, call[c].tile)), 1)
            /\ (/\ call'[c].op = "set" /\ ~readonly[c]
                /\ pc'[c] = "idle" /\ StoreStep(c)
                /\ result'[c].kind = "return")
                   => StoredAt(store', call'[c].tile) = Bytes(call'[c].data)
       /\ (now' # now \/ markers' # markers) => store' = store]_vars

\* While T1 was locked by the other worker, and still is, a writing worker
\* has set T1 and the store holds its data.
C9_Witness ==
    \E a, b \in Callers :
        /\ a # b
        /\ call[a].op = "attemptLock" /\ result[a] = Result(Return(True), 1)
        /\ LockNameOf[T1] \in DOMAIN markers
        /\ call[b].op = "set" /\ call[b].tile = T1 /\ call[b].held
        /\ call[b].data = <<137, 80>> /\ call[b].outcome = "ok"
        /\ result[b] = Result(Return(Bytes(<<137, 80>>)), 1)
        /\ StoredAt(store, T1) = Bytes(<<137, 80>>)

\* The numeric order of two ints given by their bits: the highest bit in
\* which they differ is set in the greater.
IntLess(a, b) ==
    \E i \in b \ a : \A j \in (a \cup b) : j > i => (j \in a <=> j \in b)

\* The byte-wise lexicographic order of two byte strings of one length.
BytesLess(s, t) ==
    \E i \in 1..Len(s) : s[i] < t[i] /\ \A j \in 1..(i - 1) : s[j] = t[j]

\* The int that 4 bytes, most significant first, are the digits of.
FromBigEndian(b) == {i \in 0..31 : (b[4 - (i \div 8)] \div (2 ^ (i % 8))) % 2 = 1}

\* C11: the column name of a valid coordinate is 8 bytes, z in 4 bytes most
\* significant first, then interleave2(x, y) in 4 bytes most significant
\* first; for two coordinates of one z the names are in byte-wise
\* lexicographic order exactly when their interleave2 values are in
\* ascending numeric order.
C11_ColumnNameOrder ==
    out # <<>> =>
        /\ \A k \in 1..2 :
               /\ Len(out[k].name) = 8
               /\ \A i \in 1..8 : out[k].name[i] \in 0..255
               /\ FromBigEndian(SubSeq(out[k].name, 1, 4))
                      = {i \in 0..30 : (arg[5] \div (2 ^ i)) % 2 = 1}
               /\ FromBigEndian(SubSeq(out[k].name, 5, 8)) = out[k].morton
        /\ BytesLess(out[1].name, out[2].name) <=> IntLess(out[1].morton, out[2].morton)

\* Two column names of one zoom level in byte order, of tiles that are in
\* the opposite order by x, the first name's interleave2 value filling
\* more than one byte.
C11_Witness ==
    /\ out # <<>>
    /\ arg[1] = 256 /\ arg[2] = 0 /\ arg[3] = 0 /\ arg[4] = 65535
    /\ arg[5] = 16777216
    /\ out[1].name = <<1, 0, 0, 0, 0, 1, 0, 0>>
    /\ BytesLess(out[1].name, out[2].name)

\* C12: for x and y of at most 16 bits, bit 2i of interleave2(x, y) is bit i
\* of x and bit 2i+1 is bit i of y, for every i in 0..15, and no other bit
\* is set; the column name of x = 5, y = 2, z = 3 is 00 00 00 03 00 00 00 19.
C12_MortonBits ==
    out # <<>> =>
        /\ \A i \in 0..15 :
               /\ (2 * i \in out[1].morton) <=> ((arg[1] \div (2 ^ i)) % 2 = 1)
               /\ (2 * i + 1 \in out[1].morton) <=> ((arg[2] \div (2 ^ i)) % 2 = 1)
               /\ (2 * i \in out[2].morton) <=> ((arg[3] \div (2 ^ i)) % 2 = 1)
               /\ (2 * i + 1 \in out[2].morton) <=> ((arg[4] \div (2 ^ i)) % 2 = 1)
        /\ out[1].morton \cup out[2].morton \subseteq 0..31
        /\ (arg[1] = 5 /\ arg[2] = 2 /\ arg[5] = 3)
               => out[1].name = <<0, 0, 0, 3, 0, 0, 0, 25>>

\* The column name of x = 5, y = 2, z = 3 has been computed, and that of
\* x = 65535, y = 0, whose interleave2 value has its 16 even bits set.
C12_Witness ==
    /\ out # <<>>
    /\ arg = <<5, 2, 65535, 0, 3>>
    /\ out[1].name = <<0, 0, 0, 3, 0, 0, 0, 25>>
    /\ out[2].morton = {2 * i : i \in 0..15}

\* C13: a set that repeats the layer's last completed write, same coordinate
\* and same data, leaves the whole store as it was and returns the data.
C13_SetIdempotent ==
    [][\A c \in Callers :
         (/\ Answered(c, "cf.insert")
          /\ call'[c].outcome = "ok"
          /\ written[call[c].tile.layer] = [tile |-> call[c].tile, data |-> call[c].data])
         => /\ store' = store
            /\ result'[c] = Result(Return(Bytes(call[c].data)), 1)]_vars

\* Both workers have set T1 to the same bytes, one after the other, and
\* have done nothing since: the store holds those bytes for T1 and no more.
C13_Witness ==
    /\ \A c \in Callers :
           /\ call[c].op = "set" /\ call[c].tile = T1 /\ call[c].data = <<137, 80>>
           /\ call[c].outcome = "ok" /\ pc[c] = "idle"
           /\ result[c] = Result(Return(Bytes(<<137, 80>>)), 1)
    /\ DOMAIN store = {RowKeyOf[T1]}
    /\ store[RowKeyOf[T1]] = [n \in {ColumnNameOf[T1]} |-> <<137, 80>>]

\* C15: when the last call of every worker is a set on one coordinate that
\* the store has answered, the column holds the data of one of those calls,
\* whole, and it is the data of the one the store answered last.
C15_LastWriterWins ==
    \A t \in AllTiles :
        (\A c \in Callers : /\ call[c].op = "set" /\ call[c].tile = t
                            /\ call[c].outcome = "ok" /\ pc[c] = "idle")
        => /\ \E c \in Callers : StoredAt(store, t) = Bytes(call[c].data)
           /\ written[t.layer].tile = t
           /\ StoredAt(store, t) = Bytes(written[t.layer].data)

\* Two sets on T1 with different data were in flight together and both have
\* been answered.
C15_Witness ==
    \E a, b \in Callers :
        /\ call[a].op = "set" /\ call[a].tile = T1 /\ call[a].data = <<>>
        /\ call[b].op = "set" /\ call[b].tile = T1 /\ call[b].data = <<137, 80>>
        /\ call[a].outcome = "ok" /\ call[b].outcome = "ok"
        /\ pc[a] = "idle" /\ pc[b] = "idle"
        /\ a \in call[b].during
        /\ StoredAt(store, T1) \in {Bytes(<<>>), Bytes(<<137, 80>>)}

C17_MutualExclusion ==
    [][\A c \in Callers :
         (/\ call[c].op = "attemptLock"
          /\ Answered(c, "memcache.add")
          /\ Held(call[c].tile)
          /\ lastLock[call[c].tile].by # c
          /\ "lost" \notin lastLock[call[c].tile].taken)
         => ~(result'[c].kind = "return" /\ Truthy(result'[c].val))]_vars

\* C17: while a worker holds the lock of a coordinate, and no other worker's
\* unlock for the coordinate has reached the coordination service and the
\* service has not lost the marker, no attemptLock of another worker for the
\* coordinate returns true.
C17_MutualExclusionUnlessTaken ==
    [][\A c \in Callers :
         (/\ call[c].op = "attemptLock"
          /\ Answered(c, "memcache.add")
          /\ Held(call[c].tile)
          /\ lastLock[call[c].tile].by # c
          /\ lastLock[call[c].tile].taken = {})
         => ~(result'[c].kind = "return" /\ Truthy(result'[c].val))]_vars

\* A worker holds the lock of T1, its marker untouched, and memcache has
\* refused the lock to the other worker, whose attemptLock has returned False.
C17_Witness ==
    \E a, b \in Callers :
        /\ a # b
        /\ Held(T1) /\ lastLock[T1].by = a /\ lastLock[T1].taken = {}
        /\ lastLock[T1].refused
        /\ call[b].op = "attemptLock" /\ call[b].tile = T1 /\ call[b].outcome = "ok"
        /\ result[b] = Result(Return(False), 1)

\* Two coordinates of one layer and one z whose x and whose y agree modulo
\* 65536.
Alias(t, u) ==
    /\ t.layer = u.layer /\ t.z = u.z
    /\ t.x % 65536 = u.x % 65536
    /\ t.y % 65536 = u.y % 65536

\* C16: a set for a coordinate with x or y of 65536 or more is accepted like
\* any other, and what it writes is what a get returns for every coordinate
\* that agrees with it modulo 65536 in x and y: a get for such a coordinate
\* that follows the set, with no other write on the layer in between,
\* returns the data of the set.
C16_CoordinatesAlias ==
    [][\A c \in Callers :
         /\ (Answered(c, "cf.insert") /\ call'[c].outcome = "ok")
                => /\ result'[c] = Result(Return(Bytes(call[c].data)), 1)
                   /\ \A u \in AliasTiles :
                          Alias(call[c].tile, u)
                              => StoredAt(store', u) = Bytes(call[c].data)
         /\ (/\ Answered(c, "cf.get") /\ call'[c].outcome = "ok"
             /\ written[call[c].tile.layer].tile # NoTile
             /\ Alias(written[call[c].tile.layer].tile, call[c].tile))
                => result'[c] = Result(Return(Bytes(written[call[c].tile.layer].data)), 1)]_vars

\* A get for T1 has returned the bytes that only the sets for T3 and T5
\* write, and a get for T3 the bytes that only the sets for T1 write.
C16_Witness ==
    \E a, b \in Callers :
        /\ call[a].op = "get" /\ call[a].tile = T1 /\ call[a].outcome = "ok"
        /\ result[a] = Result(Return(Bytes(<<137, 80>>)), 1)
        /\ call[b].op = "get" /\ call[b].tile = T3 /\ call[b].outcome = "ok"
        /\ result[b] = Result(Return(Bytes(<<>>)), 1)

\* C18: a set that the store has answered has written its data for its own
\* coordinate and has left what a get returns for every other valid
\* coordinate as it was, whether the other differs in x and y, in z only or
\* in the layer only; a set that failed has changed nothing.
C18_SetTouchesOneTile ==
    [][\A c \in Callers :
         Answered(c, "cf.insert") =>
            /\ call'[c].outcome = "ok"
                   => StoredAt(store', call[c].tile) = Bytes(call[c].data)
            /\ \A u \in LayerTiles \ {call[c].tile} :
                   StoredAt(store', u) = StoredAt(store, u)]_vars

\* w1, the only writer, has set T1 last, to the empty string; T2, T6 and T4,
\* which it had set before, still hold their bytes.
C18_Witness ==
    /\ readonly["w2"]
    /\ call["w1"].op = "set" /\ call["w1"].tile = T1 /\ call["w1"].data = <<>>
    /\ call["w1"].outcome = "ok" /\ pc["w1"] = "idle"
    /\ StoredAt(store, T1) = Bytes(<<>>)
    /\ \A u \in {T2, T6, T4} : StoredAt(store, u) = Bytes(<<137, 80>>)

\* C19: a delete that has ended has left every row but that of its layer as
\* it was, so a get for a coordinate of another layer returns what it
\* returned before; the row of its layer is gone as a whole or untouched as
\* a whole, whatever the x, y and z of the coordinate.
C19_DeleteTouchesOneRow ==
    [][\A c \in Callers :
         (/\ call'[c].op = "delete"
          /\ Answered(c, "cf.delete") \/ EndsAtOnce(c))
         => /\ \A u \in AllTiles :
                   u.layer # call'[c].tile.layer
                       => StoredAt(store', u) = StoredAt(store, u)
            /\ \A k \in DOMAIN store :
                   k # call'[c].tile.layer => (k \in DOMAIN store' /\ store'[k] = store[k])
            /\ DOMAIN store' \subseteq DOMAIN store
            /\ \/ call'[c].tile.layer \notin DOMAIN store'
               \/ store' = store]_vars

\* w1, the only writer, has set T4 and has then called delete for T1, of the
\* other layer: the call has ended and T4 still holds its bytes.
C19_Witness ==
    /\ readonly["w2"]
    /\ call["w1"].op = "delete" /\ call["w1"].tile = T1 /\ pc["w1"] = "idle"
    /\ result["w1"].kind # ""
    /\ StoredAt(store, T4) = Bytes(<<137, 80>>)
    /\ written[T1.layer] = NoWrite

\* C20: the locks of different coordinates are independent.  Different
\* coordinates have different lock tokens.  A coordinate whose lock has never been taken is granted to the attemptLock that
\* memcache serves, whatever markers other coordinates hold; and while the
\* lock of a coordinate is held and its marker untouched, the marker stays
\* through the unlock of any other coordinate, so that an attemptLock for
\* the held coordinate that memcache serves does not return true.
C20_LocksIndependent ==
    [][\A c \in Callers :
         /\ \A t, u \in AllTiles : t # u => LockNameOf[t] # LockNameOf[u]
         /\ (/\ call[c].op = "attemptLock"
             /\ Answered(c, "memcache.add")
             /\ call'[c].outcome = "ok"
             /\ lastLock[call[c].tile].by = "")
            => (result'[c].kind = "return" /\ Truthy(result'[c].val))
         /\ (/\ call[c].op = "attemptLock"
             /\ Answered(c, "memcache.add")
             /\ Held(call[c].tile)
             /\ lastLock[call[c].tile].taken = {})
            => ~(result'[c].kind = "return" /\ Truthy(result'[c].val))
         /\ (/\ call[c].op = "unlock"
             /\ Answered(c, "memcache.delete"))
            => \A u \in AllTiles \ {call[c].tile} :
                 LockNameOf[u] \in DOMAIN markers
                    => LockNameOf[u] \in DOMAIN markers']_vars

\* A worker took the lock of T1 and the other worker took the lock of T6
\* while T1's marker was there; the first worker's unlock of T1 has reached
\* memcache, and T6 is still held, its marker in place, memcache having
\* since refused T6 to its own holder's second attemptLock.
C20_Witness ==
    \E a, b \in Callers :
        /\ a # b
        /\ lastLock[T1].by = a /\ lastLock[T1].unlocked = "deleted"
        /\ call[a].op = "unlock" /\ call[a].tile = T1 /\ call[a].outcome = "ok"
        /\ lastLock[T6].by = b /\ Held(T6) /\ lastLock[T6].taken = {}
        /\ lastLock[T6].created = lastLock[T1].created
        /\ LockNameOf[T6] \in DOMAIN markers
        /\ LockNameOf[T1] \notin DOMAIN markers
        /\ call[b].op = "attemptLock" /\ call[b].tile = T6 /\ call[b].outcome = "ok"
        /\ result[b] = Result(Return(False), 1)

====
